---- MODULE Spec2Model ----
(***************************************************************************)
(* Model of run_benchmarks.py: the benchmark harness that discovers        *)
(* algorithms per language, runs the Lean engine once per algorithm,       *)
(* scrapes the engine's log, averages the samples and dumps a JSON table.  *)
(*                                                                         *)
(* Text is modelled as sequences of one-character strings, so that         *)
(* endswith, Path.stem, sorted, re.findall and int are computed on         *)
(* characters as the interpreter computes them.                            *)
(***************************************************************************)
EXTENDS Integers, Sequences, FiniteSets, TLC

\* ------------------------------------------------------------------ bounds

\* Largest number of entries a benchmark directory holds.
MaxDirSize == 2

\* Largest number of chunks (digits, pattern literals, filler, line breaks)
\* an engine log is put together from in SpecScrape.
MaxLogChunks == 4

\* ------------------------------------------------------- program constants

\* for _ in range(1, 2): the number of repetitions per algorithm.
Repetitions == 1

\* --------------------------------------------------------------- text

Digits == <<"0", "1", "2", "3", "4", "5", "6", "7", "8", "9">>

IsDigit(c) == \E i \in 1..Len(Digits) : Digits[i] = c

DigitValue(c) == (CHOOSE i \in 1..Len(Digits) : Digits[i] = c) - 1

\* int(match) for a run of decimal digits.
RECURSIVE ToInt(_)
ToInt(ds) ==
  IF ds = <<>> THEN 0
  ELSE ToInt(SubSeq(ds, 1, Len(ds) - 1)) * 10 + DigitValue(ds[Len(ds)])

\* Unicode code points of the characters file names are made of.
CodePoint(c) ==
  CASE c = "." -> 46
    [] c = "A" -> 65
    [] c = "B" -> 66
    [] c = "C" -> 67
    [] c = "D" -> 68
    [] c = "E" -> 69
    [] c = "M" -> 77
    [] c = "R" -> 82
    [] c = "c" -> 99
    [] c = "d" -> 100
    [] c = "m" -> 109
    [] c = "p" -> 112
    [] c = "s" -> 115
    [] c = "x" -> 120
    [] c = "y" -> 121

\* str < str: lexicographic on code points, a proper prefix first.
RECURSIVE StrLess(_, _)
StrLess(a, b) ==
  IF b = <<>> THEN FALSE
  ELSE IF a = <<>> THEN TRUE
  ELSE IF a[1] # b[1] THEN CodePoint(a[1]) < CodePoint(b[1])
  ELSE StrLess(Tail(a), Tail(b))

\* sorted(os.listdir(baseDirectory))
RECURSIVE Sorted(_)
Sorted(S) ==
  IF S = {} THEN <<>>
  ELSE LET least == CHOOSE x \in S : \A y \in S \ {x} : StrLess(x, y)
       IN  <<least>> \o Sorted(S \ {least})

\* str.endswith(suffix)
EndsWith(s, suffix) ==
  /\ Len(s) >= Len(suffix)
  /\ SubSeq(s, Len(s) - Len(suffix) + 1, Len(s)) = suffix

\* algorithmFile.endswith(("py", "cs"))
IsAlgorithmFile(algorithmFile) ==
  \/ EndsWith(algorithmFile, <<"p", "y">>)
  \/ EndsWith(algorithmFile, <<"c", "s">>)

\* str.rfind("."), 1-based; 0 when there is no dot.
RFindDot(s) ==
  IF \E i \in 1..Len(s) : s[i] = "."
  THEN CHOOSE i \in 1..Len(s) : s[i] = "." /\ \A j \in (i + 1)..Len(s) : s[j] # "."
  ELSE 0

\* Path(algorithmFile).stem: the name without its last suffix; a leading or a
\* trailing dot starts no suffix.
Stem(name) ==
  LET i == RFindDot(name)
  IN  IF i >= 2 /\ i <= Len(name) - 1 THEN SubSeq(name, 1, i - 1) ELSE name

\* s[pos:].startswith(lit), 1-based.
OccursAt(s, pos, lit) ==
  /\ pos >= 1
  /\ pos + Len(lit) - 1 <= Len(s)
  /\ SubSeq(s, pos, pos + Len(lit) - 1) = lit

\* The first index at or after pos that holds no digit (Len(s) + 1 at the end).
RECURSIVE DigitsEnd(_, _)
DigitsEnd(s, pos) ==
  IF pos <= Len(s) /\ IsDigit(s[pos]) THEN DigitsEnd(s, pos + 1) ELSE pos

\* ------------------------------------------------------------ log scraping

\* The literal of r"(\d+)k data points per second".
ThroughputSuffix ==
  <<"k", " ", "d", "a", "t", "a", " ", "p", "o", "i", "n", "t", "s", " ", "p", "e", "r", " ", "s", "e", "c", "o", "n", "d">>

\* The literal of r" completed in (\d+)".
DurationPrefix ==
  <<" ", "c", "o", "m", "p", "l", "e", "t", "e", "d", " ", "i", "n", " ">>

\* for line in file: the text cut after every line break.
RECURSIVE Lines(_)
Lines(text) ==
  IF text = <<>> THEN <<>>
  ELSE IF \E i \in 1..Len(text) : text[i] = "\n"
  THEN LET i == CHOOSE k \in 1..Len(text) :
                   text[k] = "\n" /\ \A j \in 1..(k - 1) : text[j] # "\n"
       IN  <<SubSeq(text, 1, i)>> \o Lines(SubSeq(text, i + 1, Len(text)))
  ELSE <<text>>

\* FindallThroughput with the first match of the line only (re.search).
RECURSIVE FindallThroughputFirstOnly(_, _)
FindallThroughputFirstOnly(line, pos) ==
  IF pos > Len(line) THEN <<>>
  ELSE LET e    == DigitsEnd(line, pos)
           ends == {k \in (pos + 1)..e : OccursAt(line, k, ThroughputSuffix)}
       IN  IF ends # {}
           THEN LET k == CHOOSE x \in ends : \A y \in ends : y <= x
                IN  <<ToInt(SubSeq(line, pos, k - 1))>>
           ELSE FindallThroughputFirstOnly(line, pos + 1)

\* re.findall(r"(\d+)k data points per second", line) from pos on, as integers:
\* the leftmost match, its digits taken greedily (the longest run the literal
\* follows), then on from the end of the match.
RECURSIVE FindallThroughput(_, _)
FindallThroughput(line, pos) ==
  IF pos > Len(line) THEN <<>>
  ELSE LET e    == DigitsEnd(line, pos)
           ends == {k \in (pos + 1)..e : OccursAt(line, k, ThroughputSuffix)}
       IN  IF ends # {}
           THEN LET k == CHOOSE x \in ends : \A y \in ends : y <= x
                IN  <<ToInt(SubSeq(line, pos, k - 1))>>
                      \o FindallThroughput(line, k + Len(ThroughputSuffix))
           ELSE FindallThroughput(line, pos + 1)

\* re.findall(r" completed in (\d+)", line) from pos on, as integers.
RECURSIVE FindallDuration(_, _)
FindallDuration(line, pos) ==
  IF pos > Len(line) THEN <<>>
  ELSE LET d == pos + Len(DurationPrefix)
           e == DigitsEnd(line, d)
       IN  IF OccursAt(line, pos, DurationPrefix) /\ e > d
           THEN <<ToInt(SubSeq(line, d, e - 1))>> \o FindallDuration(line, e)
           ELSE FindallDuration(line, pos + 1)

\* The samples dataPointsPerSecond.extend(...) adds over the lines of a file.
RECURSIVE ExtendThroughput(_)
ExtendThroughput(lines) ==
  IF lines = <<>> THEN <<>>
  ELSE FindallThroughput(Head(lines), 1) \o ExtendThroughput(Tail(lines))

\* The samples benchmarkLengths.extend(...) adds over the lines of a file.
RECURSIVE ExtendDuration(_)
ExtendDuration(lines) ==
  IF lines = <<>> THEN <<>>
  ELSE FindallDuration(Head(lines), 1) \o ExtendDuration(Tail(lines))

\* ------------------------------------------------------------- aggregation

RECURSIVE Sum(_)
Sum(data) == IF data = <<>> THEN 0 ELSE Head(data) + Sum(Tail(data))

RECURSIVE Gcd(_, _)
Gcd(a, b) == IF b = 0 THEN a ELSE Gcd(b, a % b)

\* mean with sum // len for the quotient.
meanFloorDiv(data) ==
  IF data = <<>> THEN [ok |-> FALSE, num |-> 0, den |-> 1]
  ELSE [ok |-> TRUE, num |-> Sum(data) \div Len(data), den |-> 1]

\* mean with 0 for no data.
meanOrZero(data) ==
  IF data = <<>> THEN [ok |-> TRUE, num |-> 0, den |-> 1]
  ELSE LET g == Gcd(Sum(data), Len(data))
       IN  [ok |-> TRUE, num |-> Sum(data) \div g, den |-> Len(data) \div g]

\* statistics.mean(data): raises StatisticsError on no data; otherwise the exact
\* quotient sum / len (an int when it divides, else the float of the fraction),
\* kept here as the fraction in lowest terms.
mean(data) ==
  IF data = <<>> THEN [ok |-> FALSE, num |-> 0, den |-> 1]
  ELSE LET g == Gcd(Sum(data), Len(data))
       IN  [ok |-> TRUE, num |-> Sum(data) \div g, den |-> Len(data) \div g]

\* d[key] = value on an insertion-ordered dict: a present key keeps its place.
DictSet(d, key, value) ==
  IF \E i \in 1..Len(d) : d[i].key = key
  THEN [i \in 1..Len(d) |-> IF d[i].key = key THEN [key |-> key, value |-> value]
                            ELSE d[i]]
  ELSE Append(d, [key |-> key, value |-> value])

\* list(d): the keys in insertion order.
Keys(d) == [i \in 1..Len(d) |-> d[i].key]

\* d[key]
Get(d, key) == d[CHOOSE i \in 1..Len(d) : d[i].key = key].value

\* ------------------------------------------------------------ environment

\* for baseDirectory in [...]
BaseDirectories ==
  << <<"A", "l", "g", "o", "r", "i", "t", "h", "m", ".", "C", "S", "h", "a", "r", "p", "/", "B", "e", "n", "c", "h", "m", "a", "r", "k", "s">>,
     <<"A", "l", "g", "o", "r", "i", "t", "h", "m", ".", "P", "y", "t", "h", "o", "n", "/", "B", "e", "n", "c", "h", "m", "a", "r", "k", "s">> >>

\* baseDirectory.index("/"), 1-based.
IndexOfSlash(s) ==
  CHOOSE i \in 1..Len(s) : s[i] = "/" /\ \A j \in 1..(i - 1) : s[j] # "/"

\* baseDirectory[len("Algorithm") + 1:baseDirectory.index("/")]
LanguageOf(baseDirectory) ==
  SubSeq(baseDirectory, Len(<<"A", "l", "g", "o", "r", "i", "t", "h", "m">>) + 2,
         IndexOfSlash(baseDirectory) - 1)

\* The file names a benchmark directory may hold.
Files ==
  { <<"A", ".", "c", "s">>,
    <<"A", ".", "p", "y">>,
    <<"B", ".", "c", "s">>,
    <<"C", ".", "p", "y">>,
    <<"R", "E", "A", "D", "M", "E", ".", "m", "d">> }

\* The directory listings os.listdir may return.
Listings == {S \in SUBSET Files : Cardinality(S) <= MaxDirSize}

\* The names a log file <algorithmName>-log.txt may carry.
LogNames == {Stem(f) : f \in Files}

\* Engine logs: one throughput and one duration line.
AlphaLog ==
  <<"1", "0", "k", " ", "d", "a", "t", "a", " ", "p", "o", "i",
    "n", "t", "s", " ", "p", "e", "r", " ", "s", "e", "c", "o",
    "n", "d", "\n", "B", "a", "c", "k", "t", "e", "s", "t", " ",
    "c", "o", "m", "p", "l", "e", "t", "e", "d", " ", "i", "n",
    " ", "5", " ", "s", "e", "c", "o", "n", "d", "s", "\n">>

\* Two throughput samples and one duration sample.
MultiLog ==
  <<"4", "2", "k", " ", "d", "a", "t", "a", " ", "p", "o", "i",
    "n", "t", "s", " ", "p", "e", "r", " ", "s", "e", "c", "o",
    "n", "d", "\n", " ", "c", "o", "m", "p", "l", "e", "t", "e",
    "d", " ", "i", "n", " ", "1", "7", "\n", "3", "k", " ", "d",
    "a", "t", "a", " ", "p", "o", "i", "n", "t", "s", " ", "p",
    "e", "r", " ", "s", "e", "c", "o", "n", "d", "\n">>

\* Throughput lines only: the engine stopped before the completion line.
PartialLog ==
  <<"7", "k", " ", "d", "a", "t", "a", " ", "p", "o", "i", "n",
    "t", "s", " ", "p", "e", "r", " ", "s", "e", "c", "o", "n",
    "d", "\n">>

\* No line of interest.
QuietLog ==
  <<"E", "n", "g", "i", "n", "e", " ", "s", "t", "a", "r", "t",
    "e", "d", "\n">>

SampleLogs == {AlphaLog, MultiLog, PartialLog, QuietLog}

\* The pieces the logs of SpecScrape are put together from.
Chunks ==
  { <<"4">>, <<"0">>, ThroughputSuffix, DurationPrefix, <<"k">>, <<"x">>, <<"\n">> }

RECURSIVE LogsOfLength(_)
LogsOfLength(n) ==
  IF n = 0 THEN {<<>>}
  ELSE {c \o t : c \in Chunks, t \in LogsOfLength(n - 1)}

\* Every log of at most MaxLogChunks chunks.
AllLogs == UNION {LogsOfLength(n) : n \in 0..MaxLogChunks}

NoLog == [exists |-> FALSE, text |-> <<>>, fresh |-> FALSE]

\* ------------------------------------------------------------------ state

VARIABLES
  dir,                  \* os.listdir of each base directory
  logs,                 \* ./Launcher/bin/Release/<name>-log.txt, by name
  outfile,              \* benchmark_results.json
  writes,               \* how often benchmark_results.json was written
  pc,                   \* the statement the script is at
  error,                \* the exception that ended the script
  li,                   \* position of the outer loop in BaseDirectories
  language,
  listing,              \* what is left of sorted(os.listdir(baseDirectory))
  discovered,           \* per base directory, the algorithmName values so far
  algorithmName,
  dataPointsPerSecond,
  benchmarkLengths,
  rep,                  \* the repetition the inner range loop is at
  engines,              \* engine processes in progress
  exitCode,             \* returncode of the last subprocess.run
  file,                 \* the object the name file is bound to
  openHandles,          \* log file objects not closed yet
  resultsPerLanguage,
  results

vars ==
  << dir, logs, outfile, writes, pc, error, li, language, listing, discovered,
     algorithmName, dataPointsPerSecond, benchmarkLengths, rep, engines,
     exitCode, file, openHandles, resultsPerLanguage, results >>

\* The state after lines 1-12, the environment left open.
InitWith(dirs, stale, prior) ==
  /\ dir = dirs
  /\ logs = [n \in LogNames |->
               IF stale THEN [exists |-> TRUE, text |-> AlphaLog, fresh |-> FALSE]
               ELSE NoLog]
  /\ outfile = [exists |-> prior, prior |-> prior, table |-> <<>>]
  /\ writes = 0
  /\ pc = "language"
  /\ error = "none"
  /\ li = 1
  /\ language = <<>>
  /\ listing = <<>>
  /\ discovered = [i \in 1..Len(BaseDirectories) |-> <<>>]
  /\ algorithmName = <<>>
  /\ dataPointsPerSecond = <<>>
  /\ benchmarkLengths = <<>>
  /\ rep = 1
  /\ engines = 0
  /\ exitCode = 0
  /\ file = [bound |-> FALSE, text |-> <<>>, fresh |-> FALSE]
  /\ openHandles = 0
  /\ resultsPerLanguage = <<>>
  /\ results = <<>>

\* Any listing of the two directories; the working directory either clean or
\* holding the logs of an earlier run; an artifact of an earlier run in place.
Init ==
  \E dirs \in [1..Len(BaseDirectories) -> Listings], stale \in BOOLEAN :
    InitWith(dirs, stale, TRUE)

\* The uncaught exception ends the script.
Raise(exception) ==
  /\ pc' = "aborted"
  /\ error' = exception

\* ---------------------------------------------------------------- actions

\* Lines 13-18: the outer loop takes the next base directory, starts an empty
\* resultsPerLanguage and lists the directory in sorted order.
NextLanguage ==
  /\ pc = "language"
  /\ li <= Len(BaseDirectories)
  /\ language' = LanguageOf(BaseDirectories[li])
  /\ resultsPerLanguage' = <<>>
  /\ listing' = Sorted(dir[li])
  /\ pc' = "file"
  /\ UNCHANGED << dir, logs, outfile, writes, error, li, discovered,
                  algorithmName, dataPointsPerSecond, benchmarkLengths, rep,
                  engines, exitCode, file, openHandles, results >>

\* Lines 18-19: a file that ends with neither suffix is passed over.
SkipFile ==
  /\ pc = "file"
  /\ listing # <<>>
  /\ ~IsAlgorithmFile(Head(listing))
  /\ listing' = Tail(listing)
  /\ UNCHANGED << dir, logs, outfile, writes, pc, error, li, language,
                  discovered, algorithmName, dataPointsPerSecond,
                  benchmarkLengths, rep, engines, exitCode, file, openHandles,
                  resultsPerLanguage, results >>

\* Lines 18-27: an algorithm file gives its name and fresh accumulators, and
\* the repetition loop starts.
StartAlgorithm ==
  /\ pc = "file"
  /\ listing # <<>>
  /\ IsAlgorithmFile(Head(listing))
  /\ listing' = Tail(listing)
  /\ algorithmName' = Stem(Head(listing))
  /\ discovered' = [discovered EXCEPT ![li] = Append(@, Stem(Head(listing)))]
  /\ dataPointsPerSecond' = <<>>
  /\ benchmarkLengths' = <<>>
  /\ rep' = 1
  /\ pc' = "invoke"
  /\ UNCHANGED << dir, logs, outfile, writes, error, li, language, engines,
                  exitCode, file, openHandles, resultsPerLanguage, results >>

\* EndLanguage with the dump of lines 63-64 indented into the outer loop.
EndLanguageAndDump ==
  /\ pc = "file"
  /\ listing = <<>>
  /\ results' = DictSet(results, language, resultsPerLanguage)
  /\ outfile' = [exists |-> TRUE, prior |-> FALSE, table |-> results']
  /\ writes' = writes + 1
  /\ li' = li + 1
  /\ pc' = "language"
  /\ UNCHANGED << dir, logs, error, language, listing, discovered,
                  algorithmName, dataPointsPerSecond, benchmarkLengths, rep,
                  engines, exitCode, file, openHandles, resultsPerLanguage >>

\* Line 61: the directory is exhausted; the language's table is stored and the
\* outer loop moves on.
EndLanguage ==
  /\ pc = "file"
  /\ listing = <<>>
  /\ results' = DictSet(results, language, resultsPerLanguage)
  /\ li' = li + 1
  /\ pc' = "language"
  /\ UNCHANGED << dir, logs, outfile, writes, error, language, listing,
                  discovered, algorithmName, dataPointsPerSecond,
                  benchmarkLengths, rep, engines, exitCode, file, openHandles,
                  resultsPerLanguage >>

\* Invoke with the engine started and not waited for (Popen for run).
InvokeNoWait ==
  /\ pc = "invoke"
  /\ rep <= Repetitions
  /\ engines' = engines + 1
  /\ logs' = [n \in DOMAIN logs |-> [logs[n] EXCEPT !.fresh = FALSE]]
  /\ pc' = "open"
  /\ UNCHANGED << dir, outfile, writes, error, li, language, listing,
                  discovered, algorithmName, dataPointsPerSecond,
                  benchmarkLengths, rep, exitCode, file, openHandles,
                  resultsPerLanguage, results >>

\* Lines 27-42: subprocess.run starts the engine and blocks. The log files
\* present at this point are none of this invocation's making.
Invoke ==
  /\ pc = "invoke"
  /\ rep <= Repetitions
  /\ engines' = engines + 1
  /\ logs' = [n \in DOMAIN logs |-> [logs[n] EXCEPT !.fresh = FALSE]]
  /\ pc' = "engine"
  /\ UNCHANGED << dir, outfile, writes, error, li, language, listing,
                  discovered, algorithmName, dataPointsPerSecond,
                  benchmarkLengths, rep, exitCode, file, openHandles,
                  resultsPerLanguage, results >>

\* Lines 28-42: the engine exits and subprocess.run returns; the return code
\* is dropped. The engine either ran through and wrote its log, or crashed
\* before it created the log, or crashed having created an empty one.
EngineExit(texts) ==
  /\ pc = "engine"
  /\ engines' = engines - 1
  /\ pc' = "open"
  /\ \/ \E t \in texts :
          /\ logs' = [logs EXCEPT ![algorithmName] =
                        [exists |-> TRUE, text |-> t, fresh |-> TRUE]]
          /\ exitCode' = 0
     \/ /\ logs' = logs
        /\ exitCode' = 1
     \/ /\ logs' = [logs EXCEPT ![algorithmName] =
                      [exists |-> TRUE, text |-> <<>>, fresh |-> TRUE]]
        /\ exitCode' = 1
  /\ UNCHANGED << dir, outfile, writes, error, li, language, listing,
                  discovered, algorithmName, dataPointsPerSecond,
                  benchmarkLengths, rep, file, openHandles,
                  resultsPerLanguage, results >>

\* Lines 44-47: file = open(algorithmLogs, 'r'). Nothing closes a file object:
\* the one the name was bound to is closed when the interpreter reclaims it,
\* at the rebinding (reference counting) or later (a tracing collector).
OpenLog ==
  /\ pc = "open"
  /\ logs[algorithmName].exists
  /\ file' = [bound |-> TRUE, text |-> logs[algorithmName].text,
              fresh |-> logs[algorithmName].fresh]
  /\ \E reclaimed \in BOOLEAN :
       openHandles' = IF reclaimed THEN 1 ELSE openHandles + 1
  /\ pc' = "scrape"
  /\ UNCHANGED << dir, logs, outfile, writes, error, li, language, listing,
                  discovered, algorithmName, dataPointsPerSecond,
                  benchmarkLengths, rep, engines, exitCode,
                  resultsPerLanguage, results >>

\* Line 47: open raises FileNotFoundError when the log is not there.
OpenLogFails ==
  /\ pc = "open"
  /\ ~logs[algorithmName].exists
  /\ Raise("FileNotFoundError")
  /\ UNCHANGED << dir, logs, outfile, writes, li, language, listing,
                  discovered, algorithmName, dataPointsPerSecond,
                  benchmarkLengths, rep, engines, exitCode, file, openHandles,
                  resultsPerLanguage, results >>

\* Lines 48-55: every line's matches are appended to the accumulators, and the
\* repetition loop goes round.
ScrapeLog ==
  /\ pc = "scrape"
  /\ dataPointsPerSecond' =
       dataPointsPerSecond \o ExtendThroughput(Lines(file.text))
  /\ benchmarkLengths' = benchmarkLengths \o ExtendDuration(Lines(file.text))
  /\ rep' = rep + 1
  /\ pc' = "invoke"
  /\ UNCHANGED << dir, logs, outfile, writes, error, li, language, listing,
                  discovered, algorithmName, engines, exitCode, file,
                  openHandles, resultsPerLanguage, results >>

\* Lines 56-59: after the last repetition the means are taken and the entry is
\* stored under the algorithm's name.
Aggregate ==
  /\ pc = "invoke"
  /\ rep > Repetitions
  /\ mean(dataPointsPerSecond).ok
  /\ mean(benchmarkLengths).ok
  /\ resultsPerLanguage' =
       DictSet(resultsPerLanguage, algorithmName,
               [averageDps    |-> mean(dataPointsPerSecond),
                samples       |-> dataPointsPerSecond,
                averageLength |-> mean(benchmarkLengths)])
  /\ pc' = "file"
  /\ UNCHANGED << dir, logs, outfile, writes, error, li, language, listing,
                  discovered, algorithmName, dataPointsPerSecond,
                  benchmarkLengths, rep, engines, exitCode, file, openHandles,
                  results >>

\* Lines 56-57: statistics.mean raises StatisticsError on an empty accumulator.
AggregateFails ==
  /\ pc = "invoke"
  /\ rep > Repetitions
  /\ ~(mean(dataPointsPerSecond).ok /\ mean(benchmarkLengths).ok)
  /\ Raise("StatisticsError")
  /\ UNCHANGED << dir, logs, outfile, writes, li, language, listing,
                  discovered, algorithmName, dataPointsPerSecond,
                  benchmarkLengths, rep, engines, exitCode, file, openHandles,
                  resultsPerLanguage, results >>

\* Lines 63-64: after the outer loop the table is dumped.
WriteResults ==
  /\ pc = "language"
  /\ li > Len(BaseDirectories)
  /\ outfile' = [exists |-> TRUE, prior |-> FALSE, table |-> results]
  /\ writes' = writes + 1
  /\ pc' = "done"
  /\ UNCHANGED << dir, logs, error, li, language, listing, discovered,
                  algorithmName, dataPointsPerSecond, benchmarkLengths, rep,
                  engines, exitCode, file, openHandles, resultsPerLanguage,
                  results >>

\* Line 63: open(..., "w") raises when the output location is not writable.
WriteResultsFails ==
  /\ pc = "language"
  /\ li > Len(BaseDirectories)
  /\ Raise("PermissionError")
  /\ UNCHANGED << dir, logs, outfile, writes, li, language, listing,
                  discovered, algorithmName, dataPointsPerSecond,
                  benchmarkLengths, rep, engines, exitCode, file, openHandles,
                  resultsPerLanguage, results >>

\* The steps of the script itself.
Harness ==
  \/ NextLanguage
  \/ SkipFile
  \/ StartAlgorithm
  \/ EndLanguage
  \/ Invoke
  \/ OpenLog
  \/ OpenLogFails
  \/ ScrapeLog
  \/ Aggregate
  \/ AggregateFails
  \/ WriteResults
  \/ WriteResultsFails

Next == Harness \/ EngineExit(SampleLogs)

Spec == Init /\ [][Next]_vars

\* The scraper over every log text of the bound: one benchmark directory with
\* one algorithm and one other file, no log or artifact left from before.
InitScrape ==
  InitWith([i \in 1..Len(BaseDirectories) |->
              IF i = 1 THEN { <<"A", ".", "c", "s">>,
                              <<"R", "E", "A", "D", "M", "E", ".", "m", "d">> }
              ELSE {}],
           FALSE, FALSE)

NextScrape == Harness \/ EngineExit(AllLogs)

SpecScrape == InitScrape /\ [][NextScrape]_vars

\* ----------------------------------------------------------------- claims

Terminated == pc \in {"done", "aborted"}

\* The script is past the repetition loop, at line 56.
AtAggregation == pc = "invoke" /\ rep > Repetitions

\* The entries of every table built so far.
AllEntries ==
  {resultsPerLanguage[i] : i \in 1..Len(resultsPerLanguage)}
    \cup UNION {{results[l].value[i] : i \in 1..Len(results[l].value)} :
                  l \in 1..Len(results)}

IsPrefix(a, b) == Len(a) <= Len(b) /\ SubSeq(b, 1, Len(a)) = a

\* C1: a per-algorithm failure (log missing, no samples) does not abort the
\* run: whenever the script has ended other than on an unwritable output, the
\* artifact was written and holds an entry for every algorithm whose log gave
\* samples of both kinds.
C1_FailureIsolated ==
  (Terminated /\ error # "PermissionError")
    => /\ writes = 1
       /\ outfile.exists /\ ~outfile.prior
       /\ Keys(outfile.table) =
            [i \in 1..Len(BaseDirectories) |-> LanguageOf(BaseDirectories[i])]

\* C2: the mean of an empty accumulator is an error, never a number: a step
\* taken with an empty throughput or duration accumulator stores no entry, and
\* no stored entry has an empty sample list.
C2_EmptyNeverAveraged ==
  /\ [](\A e \in AllEntries : e.value.samples # <<>>)
  /\ [][(dataPointsPerSecond = <<>> \/ benchmarkLengths = <<>>)
          => resultsPerLanguage' \in {resultsPerLanguage, <<>>}]_vars

\* C2 witness: the script ended on StatisticsError with throughput samples but
\* no duration sample, and nothing was stored for the algorithm.
C2_Witness ==
  /\ pc = "aborted"
  /\ error = "StatisticsError"
  /\ dataPointsPerSecond # <<>>
  /\ benchmarkLengths = <<>>
  /\ \A i \in 1..Len(resultsPerLanguage) :
       resultsPerLanguage[i].key # algorithmName

\* The one source suffix of a language.
SuffixOf(lang) ==
  IF lang = <<"C", "S", "h", "a", "r", "p">> THEN <<".", "c", "s">>
  ELSE <<".", "p", "y">>

\* The file's extension, from its last dot on.
Extension(name) ==
  LET i == RFindDot(name)
  IN  IF i >= 2 /\ i <= Len(name) - 1 THEN SubSeq(name, i, Len(name)) ELSE <<>>

\* What discovery is to return for a listing and a language.
ExpectedDiscovery(listed, lang) ==
  LET matching == Sorted({f \in listed : Extension(f) = SuffixOf(lang)})
  IN  [i \in 1..Len(matching) |-> Stem(matching[i])]

\* C3: discovery yields exactly the entries whose extension is the language's
\* one suffix, stripped of it, in lexicographic order: what the loop has
\* discovered is always a prefix of that list, and the whole list once the
\* directory is exhausted.
C3_DiscoveryBySuffix ==
  \A i \in 1..Len(BaseDirectories) :
    LET expected == ExpectedDiscovery(dir[i], LanguageOf(BaseDirectories[i]))
    IN  /\ IsPrefix(discovered[i], expected)
        /\ li > i => discovered[i] = expected

\* C4: a non-zero exit is classified before any scraping: the log is only read
\* after an exit with status 0, and only a log this invocation wrote.
C4_NoScrapeAfterCrash ==
  pc = "scrape" => (exitCode = 0 /\ file.fresh)

\* C5: the artifact is written at most once and only after the last language;
\* until then, and in every run that ends abnormally, the file at the output
\* path is the one that was there before.
C5_WrittenOnceAtEnd ==
  /\ writes <= 1
  /\ writes = 1
       => /\ pc = "done"
          /\ li > Len(BaseDirectories)
          /\ listing = <<>>
          /\ outfile = [exists |-> TRUE, prior |-> FALSE, table |-> results]
  /\ (writes = 0 \/ pc = "aborted")
       => /\ writes = 0
          /\ outfile = [exists |-> TRUE, prior |-> TRUE, table |-> <<>>]

\* C5 witness: the script ended abnormally with results accumulated.
C5_Witness ==
  /\ pc = "aborted"
  /\ resultsPerLanguage # <<>>
  /\ results # <<>>

\* C6: at most one log file handle is open at any point, and none while an
\* engine invocation is in progress.
C6_HandleClosedBeforeNext ==
  /\ openHandles <= 1
  /\ pc = "engine" => openHandles = 0

\* The positions of a text where the throughput literal follows a digit.
ThroughputAt(text) ==
  {j \in 2..Len(text) :
     IsDigit(text[j - 1]) /\ OccursAt(text, j, ThroughputSuffix)}

\* The positions of a text where a digit follows the duration literal.
DurationAt(text) ==
  {j \in 1..Len(text) :
     /\ OccursAt(text, j, DurationPrefix)
     /\ j + Len(DurationPrefix) <= Len(text)
     /\ IsDigit(text[j + Len(DurationPrefix)])}

\* The run of digits that ends right before position j.
DigitsBefore(text, j) ==
  LET start == CHOOSE i \in 1..(j - 1) :
                 /\ \A k \in i..(j - 1) : IsDigit(text[k])
                 /\ i = 1 \/ ~IsDigit(text[i - 1])
  IN  SubSeq(text, start, j - 1)

\* The run of digits that starts at position j.
DigitsFrom(text, j) ==
  LET end == CHOOSE i \in j..Len(text) :
               /\ \A k \in j..i : IsDigit(text[k])
               /\ i = Len(text) \/ ~IsDigit(text[i + 1])
  IN  SubSeq(text, j, end)

\* The members of a set of positions, ascending.
RECURSIVE Ascending(_)
Ascending(S) ==
  IF S = {} THEN <<>>
  ELSE LET least == CHOOSE x \in S : \A y \in S : x <= y
       IN  <<least>> \o Ascending(S \ {least})

\* All occurrences of "<digits>k data points per second", by position.
ThroughputOccurrences(text) ==
  LET at == Ascending(ThroughputAt(text))
  IN  [i \in 1..Len(at) |-> ToInt(DigitsBefore(text, at[i]))]

\* All occurrences of " completed in <digits>", by position.
DurationOccurrences(text) ==
  LET at == Ascending(DurationAt(text))
  IN  [i \in 1..Len(at) |->
         ToInt(DigitsFrom(text, at[i] + Len(DurationPrefix)))]

C8_EntryIsMeanAndSamples ==
  [][(AtAggregation /\ dataPointsPerSecond # <<>> /\ benchmarkLengths # <<>>)
       => /\ \E i \in 1..Len(resultsPerLanguage') :
               resultsPerLanguage'[i].key = algorithmName
          /\ LET e == Get(resultsPerLanguage', algorithmName)
             IN  /\ e.samples = dataPointsPerSecond
                 /\ e.averageDps.den > 0
                 /\ e.averageDps.num * Len(dataPointsPerSecond)
                      = Sum(dataPointsPerSecond) * e.averageDps.den
                 /\ e.averageLength.den > 0
                 /\ e.averageLength.num * Len(benchmarkLengths)
                      = Sum(benchmarkLengths) * e.averageLength.den]_vars

\* C8 witness: an entry stored whose mean throughput is no whole number.
C8_Witness ==
  \E i \in 1..Len(resultsPerLanguage) :
    /\ resultsPerLanguage[i].value.averageDps.den = 2
    /\ Len(resultsPerLanguage[i].value.samples) = 2

\* C9: after a completed run the table has one key per language in processing
\* order, and under each language one entry per discovered algorithm, in
\* discovery order.
C9_OneEntryPerAlgorithm ==
  pc = "done"
    => /\ Keys(results) =
            [i \in 1..Len(BaseDirectories) |-> LanguageOf(BaseDirectories[i])]
       /\ \A i \in 1..Len(results) : Keys(results[i].value) = discovered[i]

\* C10: execution is sequential per repetition: never two engines in
\* progress; an engine is started only from the top of the repetition loop
\* with none in progress; the log is opened and read only after the engine's
\* exit; the loop top is reached only from the start of an algorithm or from a
\* finished scrape; and the accumulators change only by a scrape's append or by
\* the reset at the start of an algorithm.
C10_SequentialRepetitions ==
  /\ [](engines <= 1 /\ (pc \in {"open", "scrape"} => engines = 0))
  /\ [][/\ engines' > engines => (engines = 0 /\ pc = "invoke")
        /\ pc = "engine" => (pc' = "open" /\ engines' = engines - 1)
        /\ file' # file => (pc = "open" /\ engines = 0)
        /\ (pc' = "invoke" /\ pc # "invoke") => pc \in {"file", "scrape"}
        /\ << dataPointsPerSecond', benchmarkLengths' >>
             # << dataPointsPerSecond, benchmarkLengths >>
             => \/ /\ pc = "scrape"
                   /\ IsPrefix(dataPointsPerSecond, dataPointsPerSecond')
                   /\ IsPrefix(benchmarkLengths, benchmarkLengths')
                \/ /\ pc = "file"
                   /\ dataPointsPerSecond' = <<>>
                   /\ benchmarkLengths' = <<>>]_vars

\* C10 witness: the engine runs for a later algorithm, the earlier one's
\* samples scraped and stored.
C10_Witness ==
  /\ pc = "engine"
  /\ engines = 1
  /\ resultsPerLanguage # <<>>
  /\ dataPointsPerSecond = <<>>

====
